---- MODULE Spec2Model ----
(***************************************************************************)
(* Model of src/js/physics.js (BoltPhysics): calculateAs,                  *)
(* calculateJointForces, processThreadSpecs and processMaterialSpecs.      *)
(*                                                                         *)
(* A JavaScript Number is an IEEE 754 binary64 value.  The arithmetic of   *)
(* the source (+ - * / and Math.pow(x, 2)) is modelled bit-exactly: a      *)
(* finite Number is the record [k |-> "fin", s, m, e] of value             *)
(* (-1)^s * m * 2^e, with m a natural number of at most Prec bits held as  *)
(* a little-endian sequence of limbs, and every operation rounds its exact *)
(* result to nearest, ties to even.                                        *)
(***************************************************************************)
EXTENDS Integers, Sequences, FiniteSets, TLC

(***************************************************************************)
(* Natural numbers of any size: little-endian limbs, no leading zero limb. *)
(* The arithmetic is written as functions, whose arguments are values.     *)
(***************************************************************************)
LimbBits == 5 * 3
Base == 2 ^ LimbBits
BN == Seq(Nat)

Max(a, b) == IF a >= b THEN a ELSE b
Min(a, b) == IF a <= b THEN a ELSE b

BNTrim[A \in BN] ==
  IF A = <<>> THEN <<>>
  ELSE IF A[Len(A)] = 0 THEN BNTrim[SubSeq(A, 1, Len(A) - 1)]
  ELSE A

BNFromInt[n \in Nat] == IF n = 0 THEN <<>> ELSE <<n % Base>> \o BNFromInt[n \div Base]

BNRest(A) == IF A = <<>> THEN <<>> ELSE Tail(A)
BNLow(A) == IF A = <<>> THEN 0 ELSE Head(A)

BNAddC[A \in BN, B \in BN, c \in Nat] ==
  IF A = <<>> /\ B = <<>> THEN (IF c = 0 THEN <<>> ELSE <<c>>)
  ELSE <<(BNLow(A) + BNLow(B) + c) % Base>>
         \o BNAddC[BNRest(A), BNRest(B), (BNLow(A) + BNLow(B) + c) \div Base]

BNAdd(A, B) == BNAddC[A, B, 0]

\* A - B - br for A >= B + br, before trimming
BNSubB[A \in BN, B \in BN, br \in Nat] ==
  IF A = <<>> THEN <<>>
  ELSE IF Head(A) - BNLow(B) - br < 0
       THEN <<Head(A) - BNLow(B) - br + Base>> \o BNSubB[Tail(A), BNRest(B), 1]
       ELSE <<Head(A) - BNLow(B) - br>> \o BNSubB[Tail(A), BNRest(B), 0]

BNSub(A, B) == BNTrim[BNSubB[A, B, 0]]

\* -1, 0, 1 as A <, =, > B from limb i downwards (equal lengths)
BNCmpFrom[A \in BN, B \in BN, i \in Nat] ==
  IF i = 0 THEN 0
  ELSE IF A[i] < B[i] THEN -1
  ELSE IF A[i] > B[i] THEN 1
  ELSE BNCmpFrom[A, B, i - 1]

BNCmp[A \in BN, B \in BN] ==
  IF Len(A) < Len(B) THEN -1
  ELSE IF Len(A) > Len(B) THEN 1
  ELSE BNCmpFrom[A, B, Len(A)]

BNMulSmall[A \in BN, d \in Nat, c \in Nat] ==
  IF A = <<>> THEN (IF c = 0 THEN <<>> ELSE <<c>>)
  ELSE <<(Head(A) * d + c) % Base>> \o BNMulSmall[Tail(A), d, (Head(A) * d + c) \div Base]

BNMulLimb(A, d) == IF d = 0 THEN <<>> ELSE BNMulSmall[A, d, 0]

\* A * Base
BNUp[A \in BN] == IF A = <<>> THEN <<>> ELSE <<0>> \o A

BNMul[A \in BN, B \in BN] ==
  IF A = <<>> \/ B = <<>> THEN <<>>
  ELSE BNAddC[BNMulLimb(A, Head(B)), BNUp[BNMul[A, Tail(B)]], 0]

IntBitLen[n \in Nat] == IF n = 0 THEN 0 ELSE 1 + IntBitLen[n \div 2]

BNBitLen[A \in BN] ==
  IF A = <<>> THEN 0 ELSE (Len(A) - 1) * LimbBits + IntBitLen[A[Len(A)]]

BNBit[A \in BN, i \in Nat] ==
  IF (i \div LimbBits) + 1 > Len(A) THEN 0
  ELSE (A[(i \div LimbBits) + 1] \div (2 ^ (i % LimbBits))) % 2

\* A * 2^k
BNShl[A \in BN, k \in Nat] ==
  IF A = <<>> THEN <<>>
  ELSE [i \in 1..(k \div LimbBits) |-> 0] \o BNMulSmall[A, 2 ^ (k % LimbBits), 0]

\* limb i of A, 0 beyond its length
BNAt(A, i) == IF i > Len(A) THEN 0 ELSE A[i]

\* A \div 2^k
BNShr[A \in BN, k \in Nat] ==
  IF Len(A) <= k \div LimbBits THEN <<>>
  ELSE BNTrim[[i \in 1..(Len(A) - (k \div LimbBits)) |->
         (BNAt(A, i + (k \div LimbBits)) \div (2 ^ (k % LimbBits)))
         + (BNAt(A, i + (k \div LimbBits) + 1) % (2 ^ (k % LimbBits)))
             * (2 ^ (LimbBits - (k % LimbBits)))]]

\* A % 2^k # 0
BNLowNonZero[A \in BN, k \in Nat] ==
  \/ \E i \in 1..Min(k \div LimbBits, Len(A)) : A[i] # 0
  \/ ((k \div LimbBits) + 1 <= Len(A) /\ A[(k \div LimbBits) + 1] % (2 ^ (k % LimbBits)) # 0)

\* the largest q <= qh with q * D <= R (qh exceeds it by at most 2)
BNFixDigit[D \in BN, R \in BN, qh \in Nat] ==
  IF BNCmp[BNMulLimb(D, qh), R] > 0 THEN BNFixDigit[D, R, qh - 1] ELSE qh

\* first guess of the next quotient limb from the top limbs of R and D
BNGuessDigit[D \in BN, R \in BN] ==
  IF Len(R) > Len(D) THEN Min((R[Len(D) + 1] * Base + R[Len(D)]) \div D[Len(D)], Base - 1)
  ELSE IF Len(R) = Len(D) THEN R[Len(D)] \div D[Len(D)]
  ELSE 0

\* R * Base + d
BNPush[R \in BN, d \in Nat] ==
  IF R = <<>> THEN (IF d = 0 THEN <<>> ELSE <<d>>) ELSE <<d>> \o R

\* <<quotient limb, remainder>> of R by D, for R < D * Base
BNDigit[D \in BN, R \in BN] ==
  LET q == BNFixDigit[D, R, BNGuessDigit[D, R]]
  IN <<<<q>>, BNSub(R, BNMulLimb(D, q))>>

\* long division by D, whose top limb is at least Base / 2, limb i of N
\* downwards; R is the running remainder, Q the quotient so far
BNDivLoop[N \in BN, D \in BN, R \in BN, Q \in BN, i \in Nat] ==
  IF i = 0 THEN <<BNTrim[Q], R>>
  ELSE LET step == BNDigit[D, BNPush[R, N[i]]]
       IN BNDivLoop[N, D, step[2], step[1] \o Q, i - 1]

BNUnshift[qr \in Seq(BN), sh \in Nat] == <<qr[1], BNShr[qr[2], sh]>>

BNDivNormal[N \in BN, D \in BN, sh \in Nat] ==
  BNUnshift[BNDivLoop[N, D, <<>>, <<>>, Len(N)], sh]

\* <<N \div D, N % D>> for D # 0
BNDivMod[N \in BN, D \in BN] ==
  BNDivNormal[BNShl[N, LimbBits - IntBitLen[D[Len(D)]]],
              BNShl[D, LimbBits - IntBitLen[D[Len(D)]]],
              LimbBits - IntBitLen[D[Len(D)]]]

BNPow10[k \in Nat] == IF k = 0 THEN <<1>> ELSE BNMulSmall[BNPow10[k - 1], 10, 0]

BNFromDigits[ds \in BN] ==
  IF ds = <<>> THEN <<>>
  ELSE BNAddC[BNMulLimb(BNFromDigits[SubSeq(ds, 1, Len(ds) - 1)], 10), <<>>, ds[Len(ds)]]

(***************************************************************************)
(* Number: IEEE 754 binary64.                                              *)
(***************************************************************************)
Prec == 53
EMin == -1074
EMaxExp == 971

Sign == {0, 1}
Number == [k : {"fin", "inf", "nan"}, s : Sign, m : BN, e : Int]

NaN == [k |-> "nan", s |-> 0, m |-> <<>>, e |-> 0]
Inf(s) == [k |-> "inf", s |-> s, m |-> <<>>, e |-> 0]
Zero(s) == [k |-> "fin", s |-> s, m |-> <<>>, e |-> EMin]

Fin[s \in Sign, m \in BN, e \in Int] ==
  IF m = <<>> THEN Zero(s)
  ELSE IF e > EMaxExp THEN Inf(s)
  ELSE [k |-> "fin", s |-> s, m |-> m, e |-> e]

IsFinite(x) == x.k = "fin"
IsZero(x) == x.k = "fin" /\ x.m = <<>>
Xor(a, b) == (a + b) % 2

\* m of at most Prec + 1 bits, and then a power of two
RoundCarry[s \in Sign, m \in BN, e \in Int] ==
  IF BNBitLen[m] > Prec THEN Fin[s, BNShr[m, 1], e + 1] ELSE Fin[s, m, e]

\* M with its sh > 0 low bits rounded away, to nearest, ties to even
RoundShift[s \in Sign, M \in BN, E \in Int, st \in BOOLEAN, sh \in Nat] ==
  IF /\ BNBit[M, sh - 1] = 1
     /\ (st \/ BNLowNonZero[M, sh - 1] \/ BNBit[M, sh] = 1)
  THEN RoundCarry[s, BNAddC[BNShr[M, sh], <<>>, 1], E + sh]
  ELSE RoundCarry[s, BNShr[M, sh], E + sh]

\* exponent of the last place of a value M * 2^E
LastPlace(M, E) == Max(E + BNBitLen[M] - Prec, EMin)

\* The binary64 nearest (ties to even) to (-1)^s * (M + st) * 2^E, where st
\* stands for a nonzero fraction below the last bit of M.
RoundToDouble[s \in Sign, M \in BN, E \in Int, st \in BOOLEAN] ==
  IF M = <<>> THEN Zero(s)
  ELSE IF LastPlace(M, E) <= E THEN Fin[s, BNShl[M, E - LastPlace(M, E)], LastPlace(M, E)]
  ELSE RoundShift[s, M, E, st, LastPlace(M, E) - E]

RoundQuotient[s \in Sign, qr \in Seq(BN), E \in Int] ==
  RoundToDouble[s, qr[1], E, qr[2] # <<>>]

RatShift(N, D) == Max(0, Prec + 2 + BNBitLen[D] - BNBitLen[N])

\* The binary64 nearest to (-1)^s * (N / D) * 2^E, N and D naturals, D # 0
RatToDouble[s \in Sign, N \in BN, D \in BN, E \in Int] ==
  IF N = <<>> THEN Zero(s)
  ELSE RoundQuotient[s, BNDivMod[BNShl[N, RatShift(N, D)], D], E - RatShift(N, D)]

FNeg[x \in Number] == IF x.k = "nan" THEN NaN ELSE [x EXCEPT !.s = 1 - x.s]
FAbs[x \in Number] == IF x.k = "nan" THEN NaN ELSE [x EXCEPT !.s = 0]

\* (-1)^sx * A * 2^e0 + (-1)^sy * B * 2^e0 for A, B # 0
AddAligned[sx \in Sign, A \in BN, sy \in Sign, B \in BN, e0 \in Int] ==
  IF sx = sy THEN RoundToDouble[sx, BNAdd(A, B), e0, FALSE]
  ELSE IF BNCmp[A, B] = 0 THEN Zero(0)
  ELSE IF BNCmp[A, B] > 0 THEN RoundToDouble[sx, BNSub(A, B), e0, FALSE]
  ELSE RoundToDouble[sy, BNSub(B, A), e0, FALSE]

FAdd[x \in Number, y \in Number] ==
  IF x.k = "nan" \/ y.k = "nan" THEN NaN
  ELSE IF x.k = "inf" THEN (IF y.k = "inf" /\ y.s # x.s THEN NaN ELSE x)
  ELSE IF y.k = "inf" THEN y
  ELSE IF IsZero(x) /\ IsZero(y) THEN Zero(IF x.s = 1 /\ y.s = 1 THEN 1 ELSE 0)
  ELSE IF IsZero(x) THEN y
  ELSE IF IsZero(y) THEN x
  \* the smaller operand is below 1/64 of the last place of the other one
  ELSE IF x.e - y.e > Prec + 7 THEN x
  ELSE IF y.e - x.e > Prec + 7 THEN y
  ELSE AddAligned[x.s, BNShl[x.m, x.e - Min(x.e, y.e)],
                  y.s, BNShl[y.m, y.e - Min(x.e, y.e)], Min(x.e, y.e)]

FSub[x \in Number, y \in Number] == FAdd[x, FNeg[y]]

FMul[x \in Number, y \in Number] ==
  IF x.k = "nan" \/ y.k = "nan" THEN NaN
  ELSE IF x.k = "inf" \/ y.k = "inf"
       THEN (IF IsZero(x) \/ IsZero(y) THEN NaN ELSE Inf(Xor(x.s, y.s)))
  ELSE IF IsZero(x) \/ IsZero(y) THEN Zero(Xor(x.s, y.s))
  ELSE RoundToDouble[Xor(x.s, y.s), BNMul[x.m, y.m], x.e + y.e, FALSE]

FDiv[x \in Number, y \in Number] ==
  IF x.k = "nan" \/ y.k = "nan" THEN NaN
  ELSE IF x.k = "inf" THEN (IF y.k = "inf" THEN NaN ELSE Inf(Xor(x.s, y.s)))
  ELSE IF y.k = "inf" THEN Zero(Xor(x.s, y.s))
  ELSE IF IsZero(y) THEN (IF IsZero(x) THEN NaN ELSE Inf(Xor(x.s, y.s)))
  ELSE IF IsZero(x) THEN Zero(Xor(x.s, y.s))
  ELSE RatToDouble[Xor(x.s, y.s), x.m, y.m, x.e - y.e]

\* magnitude order of two finite values in canonical form
MagCmp(x, y) ==
  IF IsZero(x) THEN (IF IsZero(y) THEN 0 ELSE -1)
  ELSE IF IsZero(y) THEN 1
  ELSE IF x.e < y.e THEN -1
  ELSE IF x.e > y.e THEN 1
  ELSE BNCmp[x.m, y.m]

\* -1, 0, 1 for x <, =, > y; neither is NaN
FCmp[x \in Number, y \in Number] ==
  IF IsZero(x) /\ IsZero(y) THEN 0
  ELSE IF x.s # y.s THEN (IF x.s = 1 THEN -1 ELSE 1)
  ELSE IF x.k = "inf" THEN (IF y.k = "inf" THEN 0 ELSE 1 - 2 * x.s)
  ELSE IF y.k = "inf" THEN 2 * x.s - 1
  ELSE (1 - 2 * x.s) * MagCmp(x, y)

FEq[x \in Number, y \in Number] == x.k # "nan" /\ y.k # "nan" /\ FCmp[x, y] = 0
FLt[x \in Number, y \in Number] == x.k # "nan" /\ y.k # "nan" /\ FCmp[x, y] < 0
FLe[x \in Number, y \in Number] == x.k # "nan" /\ y.k # "nan" /\ FCmp[x, y] <= 0
FGe[x \in Number, y \in Number] == FLe[y, x]
FGt[x \in Number, y \in Number] == FLt[y, x]

\* numeric literals of the source text: an integer, and n / 10^k
FromInt[n \in Int] ==
  IF n < 0 THEN RoundToDouble[1, BNFromInt[0 - n], 0, FALSE]
  ELSE RoundToDouble[0, BNFromInt[n], 0, FALSE]
Dec[n \in Int, k \in Nat] ==
  IF n < 0 THEN RatToDouble[1, BNFromInt[0 - n], BNPow10[k], 0]
  ELSE RatToDouble[0, BNFromInt[n], BNPow10[k], 0]
DecDigits[ds \in BN, k \in Nat] == RatToDouble[0, BNFromDigits[ds], BNPow10[k], 0]

(***************************************************************************)
(* JavaScript values other than Numbers, and objects as ordered property   *)
(* lists (own string keys enumerate in insertion order).                   *)
(***************************************************************************)
Undefined == [k |-> "undefined"]
Null == [k |-> "null"]
Str(t) == [k |-> "string", t |-> t]

\* StringToNumber on the strings that occur in the inputs
StringNumericValue(t) ==
  IF t = "" THEN Zero(0)
  ELSE IF t = "8.16" THEN Dec[816, 2]
  ELSE IF t = "1.5" THEN Dec[15, 1]
  ELSE NaN

ToNumber(v) ==
  IF v.k = "undefined" THEN NaN
  ELSE IF v.k = "null" THEN Zero(0)
  ELSE IF v.k = "string" THEN StringNumericValue(v.t)
  ELSE v

ObjKeys(o) == [i \in 1..Len(o) |-> o[i].name]
ObjHas(o, name) == \E i \in 1..Len(o) : o[i].name = name
ObjGet(o, name) == o[CHOOSE i \in 1..Len(o) : o[i].name = name].value

\* o[name] = v: an existing key keeps its place, a new key goes last
ObjSet(o, name, v) ==
  IF ObjHas(o, name)
  THEN [i \in 1..Len(o) |-> IF o[i].name = name THEN [name |-> name, value |-> v] ELSE o[i]]
  ELSE Append(o, [name |-> name, value |-> v])

(***************************************************************************)
(* calculateAs                                                             *)
(***************************************************************************)
\* x * 2 in place of the square
MathPow2Doubled(x) == FMul[x, FromInt[2]]

MathPow2(x) == FMul[x, x]

calculateAs(d, P) ==
  FMul[Dec[7854, 4], MathPow2(FSub[ToNumber(d), FMul[Dec[9382, 4], ToNumber(P)]])]

(***************************************************************************)
(* calculateJointForces, one operator per const of the function body       *)
(***************************************************************************)
breakingLoadOf(sigmaB, As) == FDiv[FMul[sigmaB, As], FromInt[1000]]

W0Of(breakingLoad, preloadPercent) ==
  FMul[breakingLoad, FDiv[preloadPercent, FromInt[100]]]

\* the ratio of the two stiffnesses in place of the load factor
phiOfStiffnessRatio(Kb, Kc) == FDiv[Kb, Kc]

phiOf(Kb, Kc) == FDiv[Kb, FAdd[Kb, Kc]]

deltaWbOf(externalForce, phi) == FMul[externalForce, phi]

deltaWcOf(externalForce, phi) == FMul[externalForce, FSub[FromInt[1], phi]]

WbOf(W0, deltaWb) == FAdd[W0, deltaWb]

\* the clamp force gaining what it should lose
WcOfAdded(W0, deltaWc) == FAdd[W0, deltaWc]

WcOf(W0, deltaWc) == FSub[W0, deltaWc]

deltaBolt0Of(W0, Kb) == FDiv[W0, Kb]

deltaClamp0Of(W0, Kc) == FDiv[W0, Kc]

deltaDeltaOf(externalForce, Kb, Kc) == FDiv[externalForce, FAdd[Kb, Kc]]

\* the exclusive comparison
looseningDangerOfStrict(Wc) == FLt[Wc, FromInt[0]]

looseningDangerOf(Wc) == FLe[Wc, FromInt[0]]

breakageDangerOf(Wb, breakingLoad) == FGe[Wb, breakingLoad]

\* the bolt's share in place of the clamped parts' share
looseningForceOfBoltShare(W0, phi) == FDiv[W0, phi]

looseningForceOf(W0, phi) == FDiv[W0, FSub[FromInt[1], phi]]

\* the preload left out of the margin
breakageForceOfNoPreload(breakingLoad, W0, phi) == FDiv[breakingLoad, phi]

breakageForceOf(breakingLoad, W0, phi) == FDiv[FSub[breakingLoad, W0], phi]

calculateJointForces(p) ==
  LET breakingLoad == breakingLoadOf(p.sigmaB, p.As)
      W0 == W0Of(breakingLoad, p.preloadPercent)
      phi == phiOf(p.Kb, p.Kc)
      deltaWb == deltaWbOf(p.externalForce, phi)
      deltaWc == deltaWcOf(p.externalForce, phi)
      Wb == WbOf(W0, deltaWb)
      Wc == WcOf(W0, deltaWc)
  IN [breakingLoad |-> breakingLoad,
      W0 |-> W0,
      phi |-> phi,
      deltaWb |-> deltaWb,
      deltaWc |-> deltaWc,
      Wb |-> Wb,
      Wc |-> Wc,
      deltaBolt0 |-> deltaBolt0Of(W0, p.Kb),
      deltaClamp0 |-> deltaClamp0Of(W0, p.Kc),
      deltaDelta |-> deltaDeltaOf(p.externalForce, p.Kb, p.Kc),
      looseningDanger |-> looseningDangerOf(Wc),
      breakageDanger |-> breakageDangerOf(Wb, breakingLoad),
      looseningForce |-> looseningForceOf(W0, phi),
      breakageForce |-> breakageForceOf(breakingLoad, W0, phi)]

(***************************************************************************)
(* processThreadSpecs, processMaterialSpecs                                *)
(***************************************************************************)
Returned(v) == [status |-> "returned", value |-> v]
Thrown(e) == [status |-> "thrown", error |-> e]

\* specs.D, specs.d, specs.P can be read: specs is neither null nor undefined
Readable(specs) == specs.k \notin {"null", "undefined"}
\* specs[f]: undefined when specs is a primitive or has no such property
GetField(specs, f) == IF specs.k = "object" THEN specs[f] ELSE Undefined

ThreadEntry(specs) ==
  [k |-> "object",
   D |-> GetField(specs, "D"),
   d |-> GetField(specs, "d"),
   P |-> GetField(specs, "P"),
   As |-> calculateAs(GetField(specs, "d"), GetField(specs, "P"))]

ThreadCustom == [k |-> "object", D |-> Null, d |-> Null, P |-> Null, As |-> Null]

\* the for-of loop over Object.entries(threads) from entry i on
RECURSIVE ThreadLoop(_, _, _)
ThreadLoop(threads, processed, i) ==
  IF i > Len(threads) THEN Returned(processed)
  ELSE IF ~Readable(threads[i].value) THEN Thrown("TypeError")
  ELSE ThreadLoop(threads,
                  ObjSet(processed, threads[i].name, ThreadEntry(threads[i].value)),
                  i + 1)

processThreadSpecs(threads) ==
  LET loop == ThreadLoop(threads, <<>>, 1)
  IN IF loop.status = "thrown" THEN loop
     ELSE Returned(ObjSet(loop.value, "Custom", ThreadCustom))

MaterialCustom ==
  [k |-> "object", sigmaB |-> Null, description |-> Str("User defined"),
   color |-> Str("#64748b")]

\* { ...source } onto target: every own property in order
RECURSIVE ObjSpread(_, _, _)
ObjSpread(target, source, i) ==
  IF i > Len(source) THEN target
  ELSE ObjSpread(ObjSet(target, source[i].name, source[i].value), source, i + 1)

processMaterialSpecs(materials) ==
  Returned(ObjSet(ObjSpread(<<>>, materials, 1), "Custom", MaterialCustom))

(***************************************************************************)
(* The caller: one call of the public API with arguments drawn from the    *)
(* sets below.  op and arg are the pending call, ret its return value once *)
(* the function has run (via = "pending" before).  A joint calculation may *)
(* then be repeated with externalForce replaced by a threshold of the      *)
(* previous result, every other input unchanged.                           *)
(***************************************************************************)
VARIABLES op, via, arg, ret

vars == <<op, via, arg, ret>>

MaxEntries == 2

SigmaBValues == {FromInt[800]}
AsValues == {Dec[1579, 1], Dec[843, 1]}
KbValues == {FromInt[0], FromInt[500], FromInt[700], FromInt[-200]}
KcValues == {FromInt[0], FromInt[900], FromInt[1500]}
PreloadValues == {FromInt[0], FromInt[30], FromInt[50], FromInt[75], FromInt[100]}
ForceValues == {FromInt[0], FromInt[10], FromInt[150], FromInt[-5]}

DiameterValues == {FromInt[16], FromInt[10], Dec[816, 2], FromInt[0], FromInt[-3]}
PitchValues == {FromInt[2], Dec[15, 1], FromInt[0], FromInt[-1], FromInt[20]}

ThreadObject(D, d, P) == [k |-> "object", D |-> D, d |-> d, P |-> P]
ThreadNames == {"M10", "M16", "Custom"}
ThreadValues ==
  {ThreadObject(FromInt[10], Dec[816, 2], Dec[15, 1]),
   ThreadObject(FromInt[16], Undefined, Undefined),
   ThreadObject(Str("M10"), Str("8.16"), Str("abc")),
   Null,
   Undefined}

MaterialObject(sigmaB, description, color) ==
  [k |-> "object", sigmaB |-> sigmaB, description |-> description, color |-> color]
MaterialNames == {"8.8", "10.9", "Custom"}
MaterialValues ==
  {MaterialObject(FromInt[800], Str("Class 8.8"), Str("#3b82f6")),
   MaterialObject(FromInt[1040], Str("Class 10.9"), Str("#ef4444")),
   MaterialObject(FromInt[500], Str("Mine"), Str("#000000"))}

\* objects of at most MaxEntries properties: distinct names, any order
Tables(names, values) ==
  UNION {{t \in [1..n -> [name : names, value : values]] :
            \A i, j \in 1..n : t[i].name = t[j].name => i = j} : n \in 0..MaxEntries}

JointInputs ==
  [sigmaB : SigmaBValues, As : AsValues, Kb : KbValues, Kc : KcValues,
   preloadPercent : PreloadValues, externalForce : ForceValues]

Init ==
  /\ via = "pending"
  /\ ret = [k |-> "none"]
  /\ \/ op = "calculateAs" /\ arg \in [d : DiameterValues, P : PitchValues]
     \/ op = "calculateJointForces" /\ arg \in JointInputs
     \/ op = "processThreadSpecs" /\ arg \in Tables(ThreadNames, ThreadValues)
     \/ op = "processMaterialSpecs" /\ arg \in Tables(MaterialNames, MaterialValues)

CallCalculateAs ==
  /\ op = "calculateAs" /\ via = "pending"
  /\ ret' = calculateAs(arg.d, arg.P)
  /\ via' = "fresh"
  /\ UNCHANGED <<op, arg>>

CallCalculateJointForces ==
  /\ op = "calculateJointForces" /\ via = "pending"
  /\ ret' = calculateJointForces(arg)
  /\ via' = "fresh"
  /\ UNCHANGED <<op, arg>>

RecomputeAtLooseningForce ==
  /\ op = "calculateJointForces" /\ via # "pending"
  /\ arg' = [arg EXCEPT !.externalForce = ret.looseningForce]
  /\ ret' = calculateJointForces(arg')
  /\ via' = "looseningForce"
  /\ UNCHANGED op

RecomputeAtBreakageForce ==
  /\ op = "calculateJointForces" /\ via # "pending"
  /\ arg' = [arg EXCEPT !.externalForce = ret.breakageForce]
  /\ ret' = calculateJointForces(arg')
  /\ via' = "breakageForce"
  /\ UNCHANGED op

CallProcessThreadSpecs ==
  /\ op = "processThreadSpecs" /\ via = "pending"
  /\ ret' = processThreadSpecs(arg)
  /\ via' = "fresh"
  /\ UNCHANGED <<op, arg>>

CallProcessMaterialSpecs ==
  /\ op = "processMaterialSpecs" /\ via = "pending"
  /\ ret' = processMaterialSpecs(arg)
  /\ via' = "fresh"
  /\ UNCHANGED <<op, arg>>

Next ==
  \/ CallCalculateAs
  \/ CallCalculateJointForces
  \/ RecomputeAtLooseningForce
  \/ RecomputeAtBreakageForce
  \/ CallProcessThreadSpecs
  \/ CallProcessMaterialSpecs

Spec == Init /\ [][Next]_vars

(***************************************************************************)
(* Properties                                                              *)
(***************************************************************************)
JointFields ==
  {"breakingLoad", "W0", "phi", "deltaWb", "deltaWc", "Wb", "Wc", "deltaBolt0",
   "deltaClamp0", "deltaDelta", "looseningDanger", "breakageDanger",
   "looseningForce", "breakageForce"}
NumericFields == JointFields \ {"looseningDanger", "breakageDanger"}
InputFields == {"sigmaB", "As", "Kb", "Kc", "preloadPercent", "externalForce"}

\* ret is the result of calculateJointForces(arg)
JointDone == op = "calculateJointForces" /\ via # "pending"

FiniteInput == \A f \in InputFields : IsFinite(arg[f])
NonFinite(r) == {f \in NumericFields : ~IsFinite(r[f])}

\* finite, and zero or of magnitude at least 2^-1022
NormalOrZero(x) == IsFinite(x) /\ (x.m = <<>> \/ BNBitLen[x.m] = Prec)
\* no operation of the call overflowed or underflowed
NoOverUnderflow ==
  /\ \A f \in InputFields : NormalOrZero(arg[f])
  /\ \A f \in NumericFields : NormalOrZero(ret[f])

Positive(x) == FGt[x, FromInt[0]]
NonNegative(x) == FGe[x, FromInt[0]]
FMax(x, y) == IF FGe[x, y] THEN x ELSE y

\* 2^-50, eight units of roundoff
RelTol == RoundToDouble[0, <<1>>, -50, FALSE]
\* |x - y| <= 2^-50 * scale
Within(x, y, scale) == FLe[FAbs[FSub[x, y]], FMul[RelTol, scale]]

ExampleInput ==
  [sigmaB |-> FromInt[800], As |-> Dec[1579, 1], Kb |-> FromInt[500],
   Kc |-> FromInt[1500], preloadPercent |-> FromInt[75], externalForce |-> FromInt[10]]

\* the reference values of the twelve fields, W0 computed as W0ref
ReferenceValues(W0ref) ==
  LET BL == FDiv[FMul[arg.sigmaB, arg.As], FromInt[1000]]
      ph == FDiv[arg.Kb, FAdd[arg.Kb, arg.Kc]]
      dWb == FMul[arg.externalForce, ph]
      dWc == FMul[arg.externalForce, FSub[FromInt[1], ph]]
  IN /\ ret.breakingLoad = BL
     /\ ret.W0 = W0ref
     /\ ret.phi = ph
     /\ ret.deltaWb = dWb
     /\ ret.deltaWc = dWc
     /\ ret.Wb = FAdd[W0ref, dWb]
     /\ ret.Wc = FSub[W0ref, dWc]
     /\ ret.deltaBolt0 = FDiv[W0ref, arg.Kb]
     /\ ret.deltaClamp0 = FDiv[W0ref, arg.Kc]
     /\ ret.deltaDelta = FDiv[arg.externalForce, FAdd[arg.Kb, arg.Kc]]
     /\ ret.looseningDanger = FLe[FSub[W0ref, dWc], FromInt[0]]
     /\ ret.breakageDanger = FGe[FAdd[W0ref, dWb], BL]

ExampleValues ==
  (arg = ExampleInput) =>
    /\ ret.breakingLoad = Dec[12632, 2]
    /\ ret.W0 = Dec[9474, 2]
    /\ ret.phi = Dec[25, 2]
    /\ ret.Wb = Dec[9724, 2]
    /\ ret.Wc = Dec[8724, 2]
    /\ ret.looseningDanger = FALSE
    /\ ret.breakageDanger = FALSE

C1Case ==
  /\ JointDone /\ FiniteInput
  /\ ~IsZero(arg.Kb) /\ ~IsZero(arg.Kc) /\ ~IsZero(FAdd[arg.Kb, arg.Kc])

\* C1 as stated: W0 = breakingLoad*preloadPercent/100, multiplied first and then
\* divided, with the other eleven reference values and the example.
C1_AsStated ==
  C1Case =>
    /\ ReferenceValues(FDiv[FMul[FDiv[FMul[arg.sigmaB, arg.As], FromInt[1000]],
                                 arg.preloadPercent], FromInt[100]])
    /\ ExampleValues

\* C1: for every input with Kb + Kc # 0, Kb # 0 and Kc # 0, calculateJointForces
\* returns exactly the reference values, each operation rounded to binary64, with
\* W0 = breakingLoad * (preloadPercent / 100); both flags are inclusive at
\* equality; the example input gives 126.32, 94.74, 0.25, 97.24, 87.24 and both
\* flags false.
C1_ReferenceValues ==
  C1Case =>
    /\ ReferenceValues(FMul[FDiv[FMul[arg.sigmaB, arg.As], FromInt[1000]],
                            FDiv[arg.preloadPercent, FromInt[100]]])
    /\ ExampleValues

\* the example's joint recomputed at its looseningForce: Wc is exactly 0 and
\* Wb exactly the breaking load, and both flags are raised
C1_Witness ==
  /\ C1Case /\ via = "looseningForce"
  /\ [arg EXCEPT !.externalForce = FromInt[10]] = ExampleInput
  /\ IsZero(ret.Wc) /\ ret.looseningDanger = TRUE
  /\ ret.Wb = ret.breakingLoad /\ ret.breakageDanger = TRUE

C2Case ==
  /\ JointDone /\ FiniteInput
  /\ NonNegative(arg.Kb) /\ NonNegative(arg.Kc) /\ Positive(FAdd[arg.Kb, arg.Kc])
  /\ IsFinite(ret.Wb) /\ IsFinite(ret.Wc)

\* C2 as stated, for inputs with positive stiffnesses: the three identities
\* hold exactly.
C2_AsStated ==
  (C2Case /\ Positive(arg.Kb) /\ Positive(arg.Kc)) =>
    /\ FEq[FAdd[ret.phi, FSub[FromInt[1], ret.phi]], FromInt[1]]
    /\ FEq[FSub[ret.Wb, ret.W0], ret.deltaWb]
    /\ FEq[FSub[ret.W0, ret.Wc], ret.deltaWc]

\* C2: for every finite input with Kb >= 0, Kc >= 0, Kb + Kc > 0 and finite Wb
\* and Wc, phi + (1 - phi) == 1 exactly, and Wb - W0 and W0 - Wc equal deltaWb
\* and deltaWc up to rounding: within 2^-50 of the larger magnitude subtracted.
C2_Identities ==
  C2Case =>
    /\ FEq[FAdd[ret.phi, FSub[FromInt[1], ret.phi]], FromInt[1]]
    /\ Within(FSub[ret.Wb, ret.W0], ret.deltaWb, FMax(FAbs[ret.W0], FAbs[ret.Wb]))
    /\ Within(FSub[ret.W0, ret.Wc], ret.deltaWc, FMax(FAbs[ret.W0], FAbs[ret.Wc]))

\* a joint with positive stiffnesses whose Wb - W0 is not deltaWb
C2_Witness ==
  /\ C2Case /\ Positive(arg.Kb) /\ Positive(arg.Kc)
  /\ ~FEq[FSub[ret.Wb, ret.W0], ret.deltaWb]

\* recomputed with a positive-stiffness joint's own finite threshold
C3Case ==
  /\ JointDone /\ via \in {"looseningForce", "breakageForce"}
  /\ Positive(arg.Kb) /\ Positive(arg.Kc)
  /\ NoOverUnderflow

\* C3 as stated: recomputing at looseningForce yields Wc = 0, at breakageForce
\* Wb = breakingLoad.
C3_AsStated ==
  /\ (C3Case /\ via = "looseningForce") => IsZero(ret.Wc)
  /\ (C3Case /\ via = "breakageForce") => FEq[ret.Wb, ret.breakingLoad]

\* C3: for Kb > 0 and Kc > 0, without overflow or underflow, recomputing with
\* externalForce = looseningForce yields |Wc| <= 2^-50 * |W0|, and recomputing
\* with externalForce = breakageForce yields
\* |Wb - breakingLoad| <= 2^-50 * max(|breakingLoad|, |W0|).
C3_RoundTrip ==
  /\ (C3Case /\ via = "looseningForce") =>
       Within(ret.Wc, FromInt[0], FAbs[ret.W0])
  /\ (C3Case /\ via = "breakageForce") =>
       Within(ret.Wb, ret.breakingLoad, FMax(FAbs[ret.breakingLoad], FAbs[ret.W0]))

\* a joint recomputed at its looseningForce whose Wc is not 0
C3_Witness == C3Case /\ via = "looseningForce" /\ ~IsZero(ret.Wc)

\* C4: calculateJointForces returns its 14 fields for every numeric input;
\* breakingLoad and W0 are finite for every Kb and Kc; for finite input with
\* Kc = 0 and Kb > 0 exactly deltaClamp0 and looseningForce are non-finite, with
\* Kb = 0 and Kc > 0 exactly deltaBolt0 and breakageForce.
C4_Poisoning ==
  JointDone =>
    /\ DOMAIN ret = JointFields
    /\ \A f \in NumericFields : ret[f] \in Number
    /\ ret.looseningDanger \in BOOLEAN /\ ret.breakageDanger \in BOOLEAN
    /\ IsFinite(ret.breakingLoad) /\ IsFinite(ret.W0)
    /\ (FiniteInput /\ IsZero(arg.Kc) /\ Positive(arg.Kb)) =>
         NonFinite(ret) = {"deltaClamp0", "looseningForce"}
    /\ (FiniteInput /\ IsZero(arg.Kb) /\ Positive(arg.Kc)) =>
         NonFinite(ret) = {"deltaBolt0", "breakageForce"}

\* a joint with Kc = 0, Kb > 0 and no preload: both poisoned fields are NaN
C4_Witness ==
  /\ JointDone /\ FiniteInput /\ IsZero(arg.Kc) /\ Positive(arg.Kb)
  /\ ret.deltaClamp0 = NaN /\ ret.looseningForce = NaN

NotCustom(name) == name # "Custom"
\* the keys the catalog should have: the input's other keys, then "Custom"
CatalogKeys(table) == SelectSeq(ObjKeys(table), NotCustom) \o <<"Custom">>
WellFormed(table) == \A i \in 1..Len(table) : table[i].value.k = "object"

\* C5, for inputs whose entries are all objects: the keys are the input keys in
\* order with "Custom" last, Custom is the all-null sentinel, every other entry
\* holds the input's D, d, P and As = calculateAs(d, P).
C5_AsStated ==
  (op = "processThreadSpecs" /\ via = "fresh" /\ WellFormed(arg)) =>
    /\ ret.status = "returned"
    /\ ObjKeys(ret.value) = CatalogKeys(arg)
    /\ ObjGet(ret.value, "Custom") = ThreadCustom
    /\ \A i \in 1..Len(arg) :
         NotCustom(arg[i].name) =>
           ObjGet(ret.value, arg[i].name) =
             [k |-> "object", D |-> arg[i].value.D, d |-> arg[i].value.d,
              P |-> arg[i].value.P,
              As |-> calculateAs(arg[i].value.d, arg[i].value.P)]

\* C6: the result holds every non-Custom input entry unchanged in input order,
\* with "Custom" as the last key and the sentinel as its value.
C6_AsStated ==
  (op = "processMaterialSpecs" /\ via = "fresh") =>
    /\ ret.status = "returned"
    /\ ObjKeys(ret.value) = CatalogKeys(arg)
    /\ ObjGet(ret.value, "Custom") = MaterialCustom
    /\ \A i \in 1..Len(arg) :
         NotCustom(arg[i].name) => ObjGet(ret.value, arg[i].name) = arg[i].value

\* C7: for all numbers d and P, calculateAs(d, P) is 0.7854 * (d - 0.9382 * P)^2
\* with the constant 0.7854, each operation rounded to binary64, and is >= 0;
\* calculateAs(16, 2) is 156.668510844384.
C7_StressArea ==
  (op = "calculateAs" /\ via = "fresh") =>
    /\ ret = FMul[Dec[7854, 4],
                  FMul[FSub[arg.d, FMul[Dec[9382, 4], arg.P]],
                       FSub[arg.d, FMul[Dec[9382, 4], arg.P]]]]
    /\ NonNegative(ret)
    /\ (arg.d = FromInt[16] /\ arg.P = FromInt[2]) =>
         ret = DecDigits[<<1, 5, 6, 6, 6, 8, 5, 1, 0, 8, 4, 4, 3, 8, 4>>, 12]

\* a call whose d - 0.9382 * P is negative and whose result is positive
C7_Witness ==
  /\ op = "calculateAs" /\ via = "fresh"
  /\ FLt[FSub[arg.d, FMul[Dec[9382, 4], arg.P]], FromInt[0]]
  /\ Positive(ret)

\* C8: whatever the shape of an entry's value, processThreadSpecs returns a
\* catalog in which that entry's As is what calculateAs produces.
C8_AsStated ==
  (op = "processThreadSpecs" /\ via = "fresh") =>
    /\ ret.status = "returned"
    /\ \A i \in 1..Len(arg) :
         NotCustom(arg[i].name) =>
           ObjGet(ret.value, arg[i].name).As =
             calculateAs(GetField(arg[i].value, "d"), GetField(arg[i].value, "P"))

C10Case ==
  /\ JointDone /\ Positive(arg.Kb) /\ Positive(arg.Kc)
  /\ NoOverUnderflow

\* C10 as stated: each flag is raised exactly when externalForce has reached
\* the threshold of the same result.
C10_AsStated ==
  C10Case =>
    /\ ret.looseningDanger = FGe[arg.externalForce, ret.looseningForce]
    /\ ret.breakageDanger = FGe[arg.externalForce, ret.breakageForce]

\* C10: for Kb > 0 and Kc > 0, without overflow or underflow: when
\* |Wc| > 2^-50 * |W0|, looseningDanger is true iff
\* externalForce >= looseningForce; when
\* |Wb - breakingLoad| > 2^-50 * max(|breakingLoad|, |W0|), breakageDanger is
\* true iff externalForce >= breakageForce.
C10_FlagsAgree ==
  C10Case =>
    /\ ~Within(ret.Wc, FromInt[0], FAbs[ret.W0]) =>
         ret.looseningDanger = FGe[arg.externalForce, ret.looseningForce]
    /\ ~Within(ret.Wb, ret.breakingLoad, FMax(FAbs[ret.breakingLoad], FAbs[ret.W0])) =>
         ret.breakageDanger = FGe[arg.externalForce, ret.breakageForce]

\* a separated joint away from both thresholds
C10_Witness ==
  /\ C10Case /\ via = "fresh"
  /\ ~Within(ret.Wc, FromInt[0], FAbs[ret.W0])
  /\ ~Within(ret.Wb, ret.breakingLoad, FMax(FAbs[ret.breakingLoad], FAbs[ret.W0]))
  /\ ret.looseningDanger = TRUE /\ ret.breakageDanger = FALSE


====
